---- MODULE Spec2Model ----
(***************************************************************************)
(* A model of the Ollama monitoring proxy                                  *)
(* (src/ollama_monitoring_proxy_fixed.py, class OllamaMonitoringProxy).    *)
(*                                                                         *)
(* Spec        the admission controller: concurrent proxy_request          *)
(*             handlers on one asyncio event loop.  A step of the model is *)
(*             the code one handler runs between two suspension points     *)
(*             (await), which the event loop runs without interleaving.    *)
(* FairSpec    Spec with the fairness the event loop and the upstream      *)
(*             timeout give.                                               *)
(* StreamSpec  one streamed response, line by line, through                *)
(*             _handle_streaming_response: what is read from upstream,     *)
(*             what is written to the client, what the Response Observer   *)
(*             records.                                                    *)
(* ObserverSpec  _extract_response_metrics applied to one parsed response  *)
(*             object drawn from a bounded set of objects, as implemented  *)
(*             in ollama_monitoring_proxy_fixed.py and in                  *)
(*             ollama_monitoring_proxy.py.                                 *)
(* HandlerSpec  one handler from arrival to return with everything it      *)
(*             can meet: a failed upstream call, a streamed response as in *)
(*             StreamSpec with write_eof, or a response read whole, parsed *)
(*             and measured (lines 319-354).                               *)
(* QueuedSpec  HandlerSpec with a second request that may hold the slot.   *)
(* ConcurrentSpec  the handlers of Spec on a semaphore of N_concurrent     *)
(*             slots, so that requests are in execution side by side.      *)
(* RequestSpec  what proxy_request sends upstream, what headers it answers *)
(*             with and which latency histogram it observes, applied to a  *)
(*             request drawn from bounded sets of paths, bodies and        *)
(*             headers.                                                    *)
(* PrioritySpec  Spec with one request that carries X-Priority: high.      *)
(* SamplerSpec  the handlers of Spec beside the collect_system_metrics     *)
(*             task, with the fairness the event loop gives that task.     *)
(*                                                                         *)
(* Spec abstracts from response bodies: its handlers end with an outcome   *)
(* and the token metrics stay untouched there; StreamSpec and ObserverSpec *)
(* follow the bodies.                                                      *)
(***************************************************************************)
EXTENDS Integers, Sequences, FiniteSets, TLC

\* ------------------------------------------------------------------ bounds

\* Number of inbound requests (each runs its own proxy_request handler task).
NumRequests == 3

\* Size of the admission semaphore.  The source constructs
\* asyncio.Semaphore(10); the model scales it down so that NumRequests
\* exceeds it and handlers really block.
N_admit == 1

\* Size of the same semaphore in ConcurrentSpec, scaled down less, so that
\* one request is in execution beside another while a third waits.
N_concurrent == 2

\* Longest streamed response followed, in lines.
MaxChunks == 3

\* Durations arrive in nanoseconds and are divided by 1e9.
NsPerSecond == 1000000000

Requests == 1..NumRequests

\* The request whose response StreamSpec and ObserverSpec follow.
Observed == CHOOSE p \in Requests : \A q \in Requests : p <= q

\* Values of the 'model' metric label: the request body's model, or the
\* default "unknown" of proxy_request.
ModelLabels == {"m1", "unknown"}

\* Status codes the upstream server answers with.
UpstreamStatuses == {200, 500}

\* Spec, which does not look at what a response carries, follows one of them.
SpecStatuses == {200}

\* error_type label values written by the handler.
ErrorTypes == {"timeout", "proxy_error", "streaming_error"}

\* The attribute _max_queue_seen does not exist until the first arrival
\* (hasattr(self, '_max_queue_seen') is false): <<>> is "no attribute",
\* <<n>> the attribute with value n.
NoAttr == <<>>


VARIABLES
    \* ---- per handler task
    pc,                 \* position of each handler
    model,              \* its 'model' label
    client,             \* status codes sent to the handler's client, in order
    \* ---- OllamaMonitoringProxy attributes
    queue_size,
    _max_queue_seen,
    sem_value,          \* queue_semaphore._value
    sem_waiters,        \* queue_semaphore._waiters (FIFO of blocked handlers)
    request_timestamps,
    processed_requests_count,
    \* ---- Prometheus metrics
    queue_size_gauge,
    max_queue_size,
    queue_wait_time,    \* histogram, number of observations per model
    queue_rejections,
    active_requests,    \* gauge per model
    error_count,        \* counter per <<model, error_type>>
    request_count,      \* counter per <<model, status>>
    request_duration,   \* histogram, number of observations per model
    \* ---- the response of the observed request
    up_read,            \* lines read from upstream (resp.content), in order
    cl_written,         \* arguments of response.write, in order
    up_reply,           \* status and body of a non-streaming upstream
                        \* response as read (<<>>: none read)
    cl_reply,           \* status and body of the web.Response returned for
                        \* it (<<>>: none returned)
    impl,               \* which source file's _extract_response_metrics runs
    response_json,      \* the parsed object handed to it (ObserverSpec)
    observer,           \* first_token_time and the Response Observer's
                        \* metrics for the observed request's model label
    \* ---- history (not program state)
    hist_max_queue,     \* largest value queue_size has held
    parse_attempts,     \* number of lines that reached json.loads
    events,             \* per handler, the metric updates it made, in order
    stream_log,         \* what the stream loop did to its lines, in order
    \* ---- one request as it comes in and what is built from it
    path,               \* request.path_qs, cut into pieces
    body_json,          \* the parsed request body (kind "none": None)
    in_headers,         \* request.headers, as <<name, value>> pairs
    up_headers,         \* resp.headers of the upstream response
    out_request,        \* arguments of session.request (<<>>: not called)
    cl_headers,         \* headers of the response object (<<>>: none made)
    endpoint_latency,   \* observations of _record_endpoint_latency
                        \* (<<>>: not called)
    priority,           \* per handler, the X-Priority header of its request
    \* ---- collect_system_metrics
    sampler,            \* position of the task, and whether its last
                        \* iteration raised
    queue_processing_rate,  \* the count last published (<<>>: none yet)
    rate_total          \* history: sum of the counts published so far

handlerVars == <<pc, model, client>>
semVars == <<sem_value, sem_waiters>>
queueVars == <<queue_size, _max_queue_seen, queue_size_gauge, max_queue_size,
               hist_max_queue>>
resultVars == <<error_count, request_count, request_duration>>
vars == <<pc, model, client, queue_size, _max_queue_seen, sem_value,
          sem_waiters, request_timestamps, processed_requests_count,
          queue_size_gauge, max_queue_size, queue_wait_time, queue_rejections,
          active_requests, error_count, request_count, request_duration,
          hist_max_queue, up_read, cl_written, up_reply, cl_reply, impl,
          response_json, observer, parse_attempts, events, stream_log, path,
          body_json, in_headers, up_headers, out_request, cl_headers,
          endpoint_latency, priority, sampler, queue_processing_rate,
          rate_total>>

proxyVars == <<pc, model, client, queue_size, _max_queue_seen, sem_value,
               sem_waiters, request_timestamps, processed_requests_count,
               queue_size_gauge, max_queue_size, queue_wait_time,
               queue_rejections, active_requests, error_count, request_count,
               request_duration, hist_max_queue>>

requestVars == <<path, body_json, in_headers, up_headers, out_request,
                 cl_headers, endpoint_latency, priority>>
samplerVars == <<sampler, queue_processing_rate, rate_total>>

\* What Spec leaves alone.
bodyVars == <<up_read, cl_written, up_reply, cl_reply, impl, response_json,
              observer, parse_attempts, stream_log, requestVars,
              samplerVars>>

\* ------------------------------------------------------------ helpers

Max(a, b) == IF a >= b THEN a ELSE b

\* s without its elements equal to x
SeqRemove(s, x) == SelectSeq(s, LAMBDA y : y # x)

\* Handlers between a successful acquire and the matching release.
InExecution(p) == pc[p] \in {"upstream", "streaming", "eof"}

Active == {p \in Requests : InExecution(p)}

Waiting == {p \in Requests : pc[p] = "waiting"}

\* Handlers whose acquire() has returned (they hold or have held a slot).
Admitted(p) ==
    pc[p] \in {"upstream", "streaming", "eof", "done", "cancelled"}

\* ------------------------------------------------------ the semaphore

SemLocked_IgnoresValue == sem_waiters # <<>>

\* asyncio.Semaphore.locked(): no permit, or somebody is already queued.
SemLocked == sem_value = 0 \/ sem_waiters # <<>>

SemRelease_Lost(v) == v

SemRelease_Twice(v) == v + 2

\* asyncio.Semaphore.release(): one permit back.
SemRelease(v) == v + 1

\* ------------------------------------------------- queue accounting

\* self.queue_size += 1
EnqueueSize(q) == q + 1

\* self.queue_size -= 1
DequeueSize(q) == q - 1

MaxQueueSeen_Reversed(seen, q) ==
    IF seen = NoAttr THEN <<q>>
    ELSE IF q < seen[1] THEN <<q>> ELSE seen

\* The max-queue update performed on arrival: set on first use, raised when
\* exceeded.
MaxQueueSeen(seen, q) ==
    IF seen = NoAttr THEN <<q>>
    ELSE IF q > seen[1] THEN <<q>> ELSE seen

\* self.active_requests.labels(model=m).inc()
GaugeInc_Twice(g, m) == [g EXCEPT ![m] = @ + 2]

GaugeInc(g, m) == [g EXCEPT ![m] = @ + 1]

GaugeDec_DefaultLabel(g, m) == [g EXCEPT !["unknown"] = @ - 1]

\* self.active_requests.labels(model=m).dec()
GaugeDec(g, m) == [g EXCEPT ![m] = @ - 1]

\* ------------------------------------- the order of a handler's updates

\* Lines 253-262: the queue-size gauge (and the max gauge) on arrival.
EnqueueEvents == <<"enqueue">>

\* Lines 274-312: queue-wait observation, active-gauge increment, and the
\* upstream call is issued.
DequeueEvents == <<"queue_wait", "active_inc", "forward">>

\* Lines 331 / 400: _extract_response_metrics is called.
ExtractEvents == <<"extract">>

MetricEvents_ExtractLast(extracted) ==
    <<"duration", "latency", "status">>
        \o (IF extracted THEN ExtractEvents ELSE <<>>)

\* Lines 330-347 (408-421 for a stream): metric extraction when the
\* observer is called, then the request-duration observation, the call of
\* _record_endpoint_latency and the request counter.
MetricEvents(extracted) ==
    (IF extracted THEN ExtractEvents ELSE <<>>)
        \o <<"duration", "latency", "status">>

\* Lines 357 / 361 / 406: error_count.labels(...).inc()
ErrorEvents == <<"error">>

\* Line 365: the active-gauge decrement of the finally block.
FinallyEvents == <<"active_dec">>

\* How many times the update e occurs in ev.
Count(ev, e) == Len(SelectSeq(ev, LAMBDA x : x = e))

\* The handler p has made the updates new.
Record(p, new) == events' = [events EXCEPT ![p] = @ \o new]

\* ------------------------------------------------------- JSON values

\* A JSON value is [t, v]: a number with its value, a string with its
\* length, a boolean as 0 or 1, or null.
Num(n) == [t |-> "num", v |-> n]

Str(len) == [t |-> "str", v |-> len]

Bool(b) == [t |-> "bool", v |-> IF b THEN 1 ELSE 0]

Null == [t |-> "null", v |-> 0]

\* A field left out of an object when the object is built.
Absent == [t |-> "absent", v |-> 0]

\* Python truthiness of a JSON value: None, 0, "" and false are falsy.
Truthy(x) == x.t # "null" /\ x.v # 0

IsNum(x) == x.t = "num"

\* {} as parsed JSON.
EmptyObject == [k \in {} |-> Null]

\* dict.get(k): the value, or None.
Get(obj, k) == IF k \in DOMAIN obj THEN obj[k] ELSE Null

\* dict.get(k, 0)
GetOrZero(obj, k) == IF k \in DOMAIN obj THEN obj[k] ELSE Num(0)

\* The outcome of json.loads: an object with its fields, another JSON
\* value (an array), or a raised JSONDecodeError.
JObject(f) == [kind |-> "object", fields |-> f]

JArray == [kind |-> "array", fields |-> EmptyObject]

JError == [kind |-> "error", fields |-> EmptyObject]

\* ------------------------------------------------------- rationals

Abs(n) == IF n < 0 THEN 0 - n ELSE n

RECURSIVE GCD(_, _)
GCD(a, b) == IF b = 0 THEN a ELSE GCD(b, a % b)

\* The rational n/d (d # 0) in lowest terms, as <<numerator, denominator>>
\* with a positive denominator.
Frac(n, d) ==
    LET g == GCD(Abs(n), Abs(d))
        sn == IF d < 0 THEN 0 - n ELSE n
    IN  <<sn \div g, Abs(d) \div g>>

\* response_json[...] / 1e9
Seconds(ns) == Frac(ns, NsPerSecond)

\* tokens / eval_duration_s
Rate(tokens, s) == Frac(tokens * s[2], s[1])

\* ------------------------------------- lines of a streamed response

\* The texts of the lines followed: two chunks of generated text, a chunk
\* with empty text, a chunk that reports counts before the end, the final
\* chunk, a JSON array, and a line that is not JSON.
BodyHi == "{\"response\":\"Hi\"}"

BodyThere == "{\"response\":\" there\"}"

BodyEmptyText == "{\"response\":\"\"}"

BodyEarlyCount == "{\"response\":\"x\",\"done\":false,\"eval_count\":3,\"eval_duration\":1000000000}"

BodyDone == "{\"done\":true,\"eval_count\":10,\"eval_duration\":500000000}"

BodyArray == "[1]"

BodyBad == "{\"response\":\"Hi"

\* A final chunk, or a whole non-streamed answer, whose duration is null.
BodyNullDuration == "{\"done\":true,\"eval_count\":10,\"eval_duration\":null}"

\* Bodies of non-streamed answers: nothing, the empty object, and a whole
\* answer with its counts and durations.
BodyEmpty == ""

BodyEmptyObject == "{}"

BodyFull == "{\"response\":\"Hi\",\"done\":true,\"prompt_eval_count\":5,\"eval_count\":10,\"eval_duration\":500000000}"

Bodies == {BodyHi, BodyThere, BodyEmptyText, BodyEarlyCount, BodyDone,
           BodyArray, BodyBad, BodyNullDuration}

\* A line as resp.content yields it: its text and whether it ends with a
\* newline (only the last line of a body can lack one).
Lines == [body : Bodies, eol : BOOLEAN]

\* line.decode('utf-8').strip(): the text without the line ending.
DecodeStrip(line) == line.body

\* json.loads on the texts above.
JsonLoads(text) ==
    CASE text = BodyHi -> JObject("response" :> Str(2))
      [] text = BodyThere -> JObject("response" :> Str(6))
      [] text = BodyEmptyText -> JObject("response" :> Str(0))
      [] text = BodyEarlyCount ->
            JObject("response" :> Str(1) @@ "done" :> Bool(FALSE)
                    @@ "eval_count" :> Num(3)
                    @@ "eval_duration" :> Num(NsPerSecond))
      [] text = BodyDone ->
            JObject("done" :> Bool(TRUE) @@ "eval_count" :> Num(10)
                    @@ "eval_duration" :> Num(NsPerSecond \div 2))
      [] text = BodyNullDuration ->
            JObject("done" :> Bool(TRUE) @@ "eval_count" :> Num(10)
                    @@ "eval_duration" :> Null)
      [] text = BodyEmptyObject -> JObject(EmptyObject)
      [] text = BodyFull ->
            JObject("response" :> Str(2) @@ "done" :> Bool(TRUE)
                    @@ "prompt_eval_count" :> Num(5)
                    @@ "eval_count" :> Num(10)
                    @@ "eval_duration" :> Num(NsPerSecond \div 2))
      [] text = BodyArray -> JArray
      [] OTHER -> JError

\* ------------------------------------------- the Response Observer

\* The observer's state: the local first_token_time of
\* _handle_streaming_response (<<>> is None), the histograms as the
\* sequences of their observations, the counters, and where
\* _extract_response_metrics was called (history).
InitialObserver ==
    [first_token_time |-> <<>>,
     time_to_first_token |-> <<>>,
     prompt_tokens |-> 0,
     generated_tokens |-> 0,
     tokens_per_second |-> <<>>,
     model_load_duration |-> <<>>,
     context_length |-> <<>>,
     extract_calls |-> <<>>,
     raised |-> FALSE]

\* An exception leaves the function; what was recorded before it stays.
Raise(ob) == [ob EXCEPT !.raised = TRUE]

\* Counter.inc(amount): raises on a negative amount (ValueError) and on an
\* amount that does not compare with 0 (TypeError).
CounterInc(ob, counter, amount) ==
    IF IsNum(amount) /\ amount.v >= 0
    THEN [ob EXCEPT ![counter] = @ + amount.v]
    ELSE Raise(ob)

\* if 'prompt_eval_count' in response_json: prompt_tokens.inc(...)
StepPromptTokens(rj, ob) ==
    IF "prompt_eval_count" \in DOMAIN rj
    THEN CounterInc(ob, "prompt_tokens", rj["prompt_eval_count"])
    ELSE ob

\* if 'eval_count' in response_json: generated_tokens.inc(...)
StepGeneratedTokens(rj, ob) ==
    IF "eval_count" \in DOMAIN rj
    THEN CounterInc(ob, "generated_tokens", rj["eval_count"])
    ELSE ob

DurationGuard_NonZero(s) == s[1] # 0

\* if eval_duration_s > 0
DurationGuard(s) == s[1] > 0

\* The tokens-per-second observation of one phase: attempted when the
\* duration field is present and the count is truthy.  The division by 1e9
\* raises TypeError on a duration that is not a number, then comes the
\* guard, then the division of the count by the seconds.
StepRate(rj, ob, duration, count, phase) ==
    IF duration \in DOMAIN rj /\ Truthy(Get(rj, count))
    THEN IF ~IsNum(rj[duration]) THEN Raise(ob)
         ELSE IF ~DurationGuard(Seconds(rj[duration].v)) THEN ob
         ELSE IF ~IsNum(rj[count]) THEN Raise(ob)
         ELSE [ob EXCEPT !.tokens_per_second =
                  Append(@, [phase |-> phase,
                             value |-> Rate(rj[count].v,
                                            Seconds(rj[duration].v))])]
    ELSE ob

\* if 'load_duration' in response_json: model_load_duration.observe(.. / 1e9)
StepLoadDuration(rj, ob) ==
    IF "load_duration" \in DOMAIN rj
    THEN IF IsNum(rj["load_duration"])
         THEN [ob EXCEPT !.model_load_duration =
                  Append(@, Seconds(rj["load_duration"].v))]
         ELSE Raise(ob)
    ELSE ob

\* ollama_monitoring_proxy_fixed.py:
\* if 'prompt_eval_count' in response_json: context_length.observe(it)
StepContextLength(rj, ob) ==
    IF "prompt_eval_count" \in DOMAIN rj
    THEN IF IsNum(rj["prompt_eval_count"])
         THEN [ob EXCEPT !.context_length =
                  Append(@, rj["prompt_eval_count"].v)]
         ELSE Raise(ob)
    ELSE ob

\* ollama_monitoring_proxy.py: the sum of both counts (0 when absent),
\* observed when positive.
StepContextTotal(rj, ob) ==
    LET a == GetOrZero(rj, "prompt_eval_count")
        b == GetOrZero(rj, "eval_count")
    IN  IF ~IsNum(a) \/ ~IsNum(b) THEN Raise(ob)
        ELSE IF a.v + b.v > 0
             THEN [ob EXCEPT !.context_length = Append(@, a.v + b.v)]
             ELSE ob

\* Statement after statement: the first exception ends the function.
Then(ob, next) == IF ob.raised THEN ob ELSE next

\* _extract_response_metrics of ollama_monitoring_proxy_fixed.py.  Its
\* tokens-per-second histogram has no phase label.
ExtractResponseMetricsFixed(rj, ob) ==
    LET o1 == StepPromptTokens(rj, ob)
        o2 == Then(o1, StepGeneratedTokens(rj, o1))
        o3 == Then(o2, StepRate(rj, o2, "eval_duration", "eval_count", ""))
        o4 == Then(o3, StepLoadDuration(rj, o3))
    IN  Then(o4, StepContextLength(rj, o4))

\* _extract_response_metrics of ollama_monitoring_proxy.py.
ExtractResponseMetricsOriginal(rj, ob) ==
    LET o1 == StepPromptTokens(rj, ob)
        o2 == Then(o1, StepGeneratedTokens(rj, o1))
        o3 == Then(o2, StepRate(rj, o2, "prompt_eval_duration",
                                "prompt_eval_count", "prompt_eval"))
        o4 == Then(o3, StepRate(rj, o3, "eval_duration", "eval_count",
                                "eval"))
        o5 == Then(o4, StepLoadDuration(rj, o4))
    IN  Then(o5, StepContextTotal(rj, o5))

\* A call of _extract_response_metrics made at chunk `at` (0: not in a
\* stream).
ExtractResponseMetrics(which, rj, ob, at) ==
    LET called == [ob EXCEPT !.extract_calls = Append(@, at)]
    IN  IF which = "fixed" THEN ExtractResponseMetricsFixed(rj, called)
        ELSE ExtractResponseMetricsOriginal(rj, called)

\* ---------------------------------------------------------------- Init

InitSlots(n) ==
    /\ pc = [p \in Requests |-> "idle"]
    /\ model = [p \in Requests |-> "unknown"]
    /\ client = [p \in Requests |-> <<>>]
    /\ queue_size = 0
    /\ _max_queue_seen = NoAttr
    /\ sem_value = n
    /\ sem_waiters = <<>>
    /\ request_timestamps = {}
    /\ processed_requests_count = 0
    /\ queue_size_gauge = 0
    /\ max_queue_size = 0
    /\ queue_wait_time = [m \in ModelLabels |-> 0]
    /\ queue_rejections = 0
    /\ active_requests = [m \in ModelLabels |-> 0]
    /\ error_count = [k \in ModelLabels \X ErrorTypes |-> 0]
    /\ request_count = [k \in ModelLabels \X UpstreamStatuses |-> 0]
    /\ request_duration = [m \in ModelLabels |-> 0]
    /\ hist_max_queue = 0

InitProxy == InitSlots(N_admit)

\* No response is in flight.
InitAtRest ==
    /\ up_read = <<>>
    /\ cl_written = <<>>
    /\ up_reply = <<>>
    /\ cl_reply = <<>>
    /\ parse_attempts = 0
    /\ observer = InitialObserver
    /\ impl = "fixed"
    /\ response_json = EmptyObject
    /\ events = [p \in Requests |-> <<>>]
    /\ stream_log = <<>>
    /\ out_request = <<>>
    /\ cl_headers = <<>>
    /\ endpoint_latency = <<>>
    /\ sampler = [pc |-> "ready", raised |-> FALSE]
    /\ queue_processing_rate = <<>>
    /\ rate_total = 0

\* The request of the handler when a specification does not look at it: a
\* POST to /api/generate without headers of interest, answered without
\* headers of interest.
InitInputs ==
    /\ path = <<"/api/generate">>
    /\ body_json = [kind |-> "none", fields |-> EmptyObject]
    /\ in_headers = {}
    /\ up_headers = {}
    /\ priority = [p \in Requests |-> "normal"]

Init == InitProxy /\ InitAtRest /\ InitInputs

\* ------------------------------------------- proxy_request, by blocks

\* Lines 269-281, run when acquire() has returned: the request leaves the
\* queue and becomes active.  q is queue_size and ts request_timestamps as
\* they stand when the block starts.
Dequeue_NoWaitObserved(p, m, q, ts) ==
    /\ queue_size' = DequeueSize(q)
    /\ queue_size_gauge' = DequeueSize(q)
    /\ queue_wait_time' = queue_wait_time
    /\ active_requests' = GaugeInc(active_requests, m)
    /\ request_timestamps' = ts \ {p}
    /\ pc' = [pc EXCEPT ![p] = "upstream"]

Dequeue(p, m, q, ts) ==
    /\ queue_size' = DequeueSize(q)
    /\ queue_size_gauge' = DequeueSize(q)
    /\ queue_wait_time' = [queue_wait_time EXCEPT ![m] = @ + 1]
    /\ active_requests' = GaugeInc(active_requests, m)
    /\ request_timestamps' = ts \ {p}
    /\ pc' = [pc EXCEPT ![p] = "upstream"]

Finally_KeepsActive(p) ==
    /\ active_requests' = active_requests
    /\ sem_value' = SemRelease(sem_value)
    /\ processed_requests_count' = processed_requests_count + 1
    /\ request_timestamps' = request_timestamps \ {p}
    /\ UNCHANGED sem_waiters

\* Lines 363-372, the finally block of proxy_request.
Finally(p) ==
    /\ active_requests' = GaugeDec(active_requests, model[p])
    /\ sem_value' = SemRelease(sem_value)
    /\ processed_requests_count' = processed_requests_count + 1
    /\ request_timestamps' = request_timestamps \ {p}
    /\ UNCHANGED sem_waiters

\* Lines 227-265: a request arrives with model label m, records its arrival
\* and calls acquire().  acquire() returns at once, without suspending, when
\* the semaphore is not locked; otherwise the handler is queued and suspends.
Arrive(p, m) ==
    LET q1 == EnqueueSize(queue_size)
        seen1 == MaxQueueSeen(_max_queue_seen, q1)
        ts1 == request_timestamps \cup {p}
    IN  /\ pc[p] = "idle"
        /\ model' = [model EXCEPT ![p] = m]
        /\ _max_queue_seen' = seen1
        /\ max_queue_size' = IF seen1 # _max_queue_seen THEN seen1[1]
                                                         ELSE max_queue_size
        /\ hist_max_queue' = Max(hist_max_queue, q1)
        /\ \/ /\ ~SemLocked
              /\ sem_value' = sem_value - 1
              /\ Dequeue(p, m, q1, ts1)
              /\ Record(p, EnqueueEvents \o DequeueEvents)
              /\ UNCHANGED sem_waiters
           \/ /\ SemLocked
              /\ sem_waiters' = Append(sem_waiters, p)
              /\ queue_size' = q1
              /\ queue_size_gauge' = q1
              /\ request_timestamps' = ts1
              /\ pc' = [pc EXCEPT ![p] = "waiting"]
              /\ Record(p, EnqueueEvents)
              /\ UNCHANGED <<sem_value, queue_wait_time, active_requests>>
        /\ UNCHANGED <<client, processed_requests_count, queue_rejections,
                       resultVars, bodyVars>>

\* Line 265 resumes: the semaphore hands a permit to the first queued
\* handler, which then runs lines 269-281.
Admit(p) ==
    /\ pc[p] = "waiting"
    /\ sem_waiters # <<>>
    /\ Head(sem_waiters) = p
    /\ sem_value > 0
    /\ sem_value' = sem_value - 1
    /\ sem_waiters' = Tail(sem_waiters)
    /\ Dequeue(p, model[p], queue_size, request_timestamps)
    /\ Record(p, DequeueEvents)
    /\ UNCHANGED <<model, client, _max_queue_seen, max_queue_size,
                   hist_max_queue, processed_requests_count, queue_rejections,
                   resultVars, bodyVars>>

\* The handler task is cancelled while suspended in acquire() (line 265).
\* The await stands before the try statement, so CancelledError leaves
\* proxy_request without running lines 269-281 or the finally block.
CancelWaiting(p) ==
    /\ pc[p] = "waiting"
    /\ sem_waiters' = SeqRemove(sem_waiters, p)
    /\ pc' = [pc EXCEPT ![p] = "cancelled_waiting"]
    /\ UNCHANGED <<model, client, queue_size, _max_queue_seen, sem_value,
                   request_timestamps, processed_requests_count,
                   queue_size_gauge, max_queue_size, queue_wait_time,
                   queue_rejections, active_requests, resultVars,
                   hist_max_queue, bodyVars, events>>

\* Lines 356-362: an exception raised inside the try statement before any
\* response was started.  asyncio.TimeoutError gives 504; any other Exception
\* (connection refused or reset, a failed body read, an exception raised by
\* metric extraction) gives 502.
ErrorStatus_AlwaysBadGateway(et) == 502

ErrorStatus(et) == IF et = "timeout" THEN 504 ELSE 502

UpstreamFail_Retry(p, et) ==
    /\ pc[p] = "upstream"
    /\ et \in {"timeout", "proxy_error"}
    /\ Count(events[p], "forward") < 2
    /\ error_count' = [error_count EXCEPT ![<<model[p], et>>] = @ + 1]
    /\ Record(p, ErrorEvents \o <<"forward">>)
    /\ UNCHANGED <<pc, model, client, queueVars, semVars, request_timestamps,
                   processed_requests_count, queue_wait_time, queue_rejections,
                   active_requests, request_count, request_duration, bodyVars>>

UpstreamFail_Silent(p, et) ==
    /\ pc[p] = "upstream"
    /\ et \in {"timeout", "proxy_error"}
    /\ error_count' = [error_count EXCEPT ![<<model[p], et>>] = @ + 1]
    /\ Finally(p)
    /\ Record(p, ErrorEvents \o FinallyEvents)
    /\ pc' = [pc EXCEPT ![p] = "done"]
    /\ UNCHANGED <<model, client, queueVars, queue_wait_time,
                   queue_rejections, request_count, request_duration,
                   bodyVars>>

UpstreamFail(p, et) ==
    /\ pc[p] = "upstream"
    /\ et \in {"timeout", "proxy_error"}
    /\ error_count' = [error_count EXCEPT ![<<model[p], et>>] = @ + 1]
    /\ client' = [client EXCEPT ![p] = <<ErrorStatus(et)>>]
    /\ Finally(p)
    /\ Record(p, ErrorEvents \o FinallyEvents)
    /\ pc' = [pc EXCEPT ![p] = "done"]
    /\ UNCHANGED <<model, queueVars, queue_wait_time, queue_rejections,
                   request_count, request_duration, bodyVars>>

\* Lines 319-354: a non-streaming upstream response with status st is read,
\* measured and returned.
Respond(p, st) ==
    /\ pc[p] = "upstream"
    /\ request_duration' = [request_duration EXCEPT ![model[p]] = @ + 1]
    /\ request_count' = [request_count EXCEPT ![<<model[p], st>>] = @ + 1]
    /\ client' = [client EXCEPT ![p] = <<st>>]
    /\ Finally(p)
    /\ Record(p, MetricEvents(FALSE) \o FinallyEvents)
    /\ pc' = [pc EXCEPT ![p] = "done"]
    /\ UNCHANGED <<model, queueVars, queue_wait_time, queue_rejections,
                   error_count, bodyVars>>

\* Lines 314-317 and 376-380: the request asked for a stream; the response
\* to the client is prepared with the upstream status.
StreamBegin(p, st) ==
    /\ pc[p] = "upstream"
    /\ client' = [client EXCEPT ![p] = <<st>>]
    /\ pc' = [pc EXCEPT ![p] = "streaming"]
    /\ UNCHANGED <<model, queueVars, semVars, request_timestamps,
                   processed_requests_count, queue_wait_time, queue_rejections,
                   active_requests, resultVars, bodyVars, events>>

\* Lines 404-423: the chunk loop has ended, normally (failed = FALSE) or by
\* an exception caught at line 404; the request metrics are recorded and
\* write_eof is awaited.
StreamEndCore_SkipsMetrics(p, failed) ==
    /\ pc[p] = "streaming"
    /\ error_count' =
          IF failed
          THEN [error_count EXCEPT ![<<model[p], "streaming_error">>] = @ + 1]
          ELSE error_count
    /\ request_duration' =
          IF failed THEN request_duration
          ELSE [request_duration EXCEPT ![model[p]] = @ + 1]
    /\ request_count' =
          IF failed THEN request_count
          ELSE [request_count EXCEPT ![<<model[p], client[p][1]>>] = @ + 1]
    /\ pc' = [pc EXCEPT ![p] = "eof"]
    /\ Record(p, IF failed THEN ErrorEvents ELSE MetricEvents(FALSE))
    /\ UNCHANGED <<model, client, queueVars, semVars, request_timestamps,
                   processed_requests_count, queue_wait_time, queue_rejections,
                   active_requests>>

StreamEndCore(p, failed) ==
    /\ pc[p] = "streaming"
    /\ error_count' =
          IF failed
          THEN [error_count EXCEPT ![<<model[p], "streaming_error">>] = @ + 1]
          ELSE error_count
    /\ request_duration' = [request_duration EXCEPT ![model[p]] = @ + 1]
    /\ request_count' = [request_count EXCEPT ![<<model[p], client[p][1]>>] = @ + 1]
    /\ pc' = [pc EXCEPT ![p] = "eof"]
    /\ Record(p, (IF failed THEN ErrorEvents ELSE <<>>) \o MetricEvents(FALSE))
    /\ UNCHANGED <<model, client, queueVars, semVars, request_timestamps,
                   processed_requests_count, queue_wait_time, queue_rejections,
                   active_requests>>

\* The loop ends at the end of the upstream body (failed = FALSE) or by an
\* exception of the upstream read (failed = TRUE).
StreamEnd(p, failed) == StreamEndCore(p, failed) /\ UNCHANGED bodyVars

\* Lines 423-424 and the return through proxy_request.  write_eof closes
\* the stream (ok); when it raises, as it does on a client connection that
\* is closing, the exception leaves _handle_streaming_response and is caught
\* at line 359: proxy_error is counted and a 502 response is returned for a
\* request whose response has already been started.
StreamEof(p, ok) ==
    /\ pc[p] = "eof"
    /\ error_count' =
          IF ok THEN error_count
          ELSE [error_count EXCEPT ![<<model[p], "proxy_error">>] = @ + 1]
    /\ client' =
          IF ok THEN client
          ELSE [client EXCEPT ![p] = Append(@, ErrorStatus("proxy_error"))]
    /\ Finally(p)
    /\ Record(p, (IF ok THEN <<>> ELSE ErrorEvents) \o FinallyEvents)
    /\ pc' = [pc EXCEPT ![p] = "done"]
    /\ UNCHANGED <<model, queueVars, queue_wait_time, queue_rejections,
                   request_count, request_duration, bodyVars>>

\* The handler task is cancelled at an await inside the try statement.
\* CancelledError is not an Exception, so only the finally block runs.
Cancel(p) ==
    /\ InExecution(p)
    /\ Finally(p)
    /\ Record(p, FinallyEvents)
    /\ pc' = [pc EXCEPT ![p] = "cancelled"]
    /\ UNCHANGED <<model, client, queueVars, queue_wait_time, queue_rejections,
                   resultVars, bodyVars>>

\* ---------------------------------------------------------------- Next

Next ==
    \/ \E p \in Requests, m \in ModelLabels : Arrive(p, m)
    \/ \E p \in Requests : Admit(p)
    \/ \E p \in Requests : CancelWaiting(p)
    \/ \E p \in Requests, et \in {"timeout", "proxy_error"} : UpstreamFail(p, et)
    \/ \E p \in Requests, st \in SpecStatuses : Respond(p, st)
    \/ \E p \in Requests, st \in SpecStatuses : StreamBegin(p, st)
    \/ \E p \in Requests, failed \in BOOLEAN : StreamEnd(p, failed)
    \/ \E p \in Requests, ok \in BOOLEAN : StreamEof(p, ok)
    \/ \E p \in Requests : Cancel(p)

Spec == Init /\ [][Next]_vars

\* The same handlers with N_concurrent slots, so that several requests are
\* in execution at a time while another waits.
ConcurrentInit == InitSlots(N_concurrent) /\ InitAtRest /\ InitInputs

ConcurrentSpec == ConcurrentInit /\ [][Next]_vars

\* --------------------------------------- _handle_streaming_response

Forward_Stripped(written, line) == Append(written, [line EXCEPT !.eol = FALSE])

Forward_OnlyParsed(written, line) ==
    IF JsonLoads(DecodeStrip(line)).kind = "error" THEN written
    ELSE Append(written, line)

\* await response.write(line): the line goes out as it was read.
Forward(written, line) == Append(written, line)

IsFirstToken_EveryChunk(ftt, chunk) == Truthy(Get(chunk, "response"))

\* first_token_time is None and chunk.get('response')
IsFirstToken(ftt, chunk) == ftt = <<>> /\ Truthy(Get(chunk, "response"))

IsFinalChunk_AnyCount(chunk) == "eval_count" \in DOMAIN chunk

\* chunk.get('done')
IsFinalChunk(chunk) == Truthy(Get(chunk, "done"))

\* Lines 390-402, the metric parsing of one line, the `at`-th of the
\* response; the arrival time of a chunk is modelled by its position.  A
\* line that is not JSON (JSONDecodeError), a JSON value without .get
\* (AttributeError) and an exception of _extract_response_metrics all end in
\* the bare except, which keeps what was recorded and goes on.
StreamObserve(ob, line, at) ==
    LET j == JsonLoads(DecodeStrip(line))
        chunk == j.fields
        o1 == IF IsFirstToken(ob.first_token_time, chunk)
              THEN [ob EXCEPT !.first_token_time = <<at>>,
                              !.time_to_first_token = Append(@, at)]
              ELSE ob
        o2 == IF IsFinalChunk(chunk)
              THEN ExtractResponseMetrics("fixed", chunk, o1, at)
              ELSE o1
    IN  IF j.kind # "object" THEN ob
        ELSE [o2 EXCEPT !.raised = FALSE]

ChunkOps_ParseFirst(written) ==
    IF written THEN <<"read", "parse", "write">> ELSE <<"read", "write_failed">>

\* Lines 386-400, one turn of the loop: the line is read, response.write is
\* awaited with it and, when the write has returned, json.loads and the
\* observer get the line.
ChunkOps(written) ==
    IF written THEN <<"read", "write", "parse">> ELSE <<"read", "write_failed">>

\* resp.content yields another line only after a line that ended with a
\* newline.
MoreLines == IF up_read = <<>> THEN TRUE ELSE up_read[Len(up_read)].eol

\* Lines 386-402: one more line is read from upstream, written to the
\* client and parsed for metrics.
StreamChunk(p, line) ==
    /\ p = Observed
    /\ pc[p] = "streaming"
    /\ Len(up_read) < MaxChunks
    /\ MoreLines
    /\ up_read' = Append(up_read, line)
    /\ cl_written' = Forward(cl_written, line)
    /\ parse_attempts' = parse_attempts + 1
    /\ observer' = StreamObserve(observer, line, Len(up_read) + 1)
    /\ stream_log' = stream_log \o ChunkOps(TRUE)
    /\ Record(p, IF Len(observer'.extract_calls) > Len(observer.extract_calls)
                 THEN ExtractEvents ELSE <<>>)
    /\ UNCHANGED <<proxyVars, up_reply, cl_reply, impl, response_json,
                   requestVars, samplerVars>>

\* Lines 386-388 and 404-424: a line is read and response.write is called
\* with it, but the client connection refuses the write; the exception ends
\* the loop before the line is parsed and is caught at line 404.
StreamWriteFail(p, line) ==
    /\ p = Observed
    /\ pc[p] = "streaming"
    /\ Len(up_read) < MaxChunks
    /\ MoreLines
    /\ up_read' = Append(up_read, line)
    /\ cl_written' = Forward(cl_written, line)
    /\ stream_log' = stream_log \o ChunkOps(FALSE)
    /\ StreamEndCore(p, TRUE)
    /\ UNCHANGED <<parse_attempts, observer, up_reply, cl_reply, impl,
                   response_json, requestVars, samplerVars>>

\* ------------------------------------- the non-streaming response

\* What resp.read() may return.
ReplyBodies == {BodyEmpty, BodyBad, BodyArray, BodyEmptyObject, BodyFull,
                BodyNullDuration}

\* Lines 321-327: {} for an empty body and for a body that json.loads
\* rejects, else the parsed value.
ParseReply(body) ==
    IF body = BodyEmpty \/ JsonLoads(body).kind = "error"
    THEN JObject(EmptyObject)
    ELSE JsonLoads(body)

\* if response_json: an object with a field, or an array with an element.
ReplyTruthy(j) == j.kind = "array" \/ DOMAIN j.fields # {}

\* text=f"Bad Gateway: {str(e)}"
BadGatewayText == "Bad Gateway: ..."

\* Lines 319-372 for the observed request: the upstream body is read and
\* parsed, the observer is called on a non-empty result, the request
\* metrics are recorded and the body is returned with the upstream status.
\* An exception of the observer leaves the try body before the request
\* metrics and is caught at line 359.
Reply(p, st, body) ==
    LET j == ParseReply(body)
        ob == IF ReplyTruthy(j)
              THEN ExtractResponseMetrics("fixed", j.fields, observer, 0)
              ELSE observer
    IN  /\ p = Observed
        /\ pc[p] = "upstream"
        /\ up_reply' = <<[status |-> st, body |-> body]>>
        /\ response_json' = j.fields
        /\ observer' = ob
        /\ IF ob.raised
           THEN /\ error_count' = [error_count EXCEPT
                                      ![<<model[p], "proxy_error">>] = @ + 1]
                /\ client' = [client EXCEPT
                                 ![p] = <<ErrorStatus("proxy_error")>>]
                /\ cl_reply' = <<[status |-> ErrorStatus("proxy_error"),
                                  body |-> BadGatewayText]>>
                /\ Record(p, ExtractEvents \o ErrorEvents \o FinallyEvents)
                /\ UNCHANGED <<request_duration, request_count>>
           ELSE /\ request_duration' =
                      [request_duration EXCEPT ![model[p]] = @ + 1]
                /\ request_count' =
                      [request_count EXCEPT ![<<model[p], st>>] = @ + 1]
                /\ client' = [client EXCEPT ![p] = <<st>>]
                /\ cl_reply' = <<[status |-> st, body |-> body]>>
                /\ Record(p, MetricEvents(ReplyTruthy(j)) \o FinallyEvents)
                /\ UNCHANGED error_count
        /\ Finally(p)
        /\ pc' = [pc EXCEPT ![p] = "done"]
        /\ UNCHANGED <<model, queueVars, queue_wait_time, queue_rejections,
                       up_read, cl_written, impl, parse_attempts, stream_log,
                       requestVars, samplerVars>>

\* The handler of the observed request, with its response followed line by
\* line.
StreamNext ==
    \/ \E m \in ModelLabels : Arrive(Observed, m)
    \/ \E st \in UpstreamStatuses : StreamBegin(Observed, st)
    \/ \E line \in Lines : StreamChunk(Observed, line)
    \/ \E line \in Lines : StreamWriteFail(Observed, line)
    \/ \E failed \in BOOLEAN : StreamEnd(Observed, failed)
    \/ \E ok \in BOOLEAN : StreamEof(Observed, ok)
    \/ Cancel(Observed)

StreamSpec == Init /\ [][StreamNext]_vars

\* The handler of the observed request with every way it can end: a
\* failed upstream call, a non-streaming response, a streamed response.
HandlerNext ==
    \/ StreamNext
    \/ \E et \in {"timeout", "proxy_error"} : UpstreamFail(Observed, et)
    \/ \E st \in UpstreamStatuses, body \in ReplyBodies :
          Reply(Observed, st, body)

HandlerSpec == Init /\ [][HandlerNext]_vars

\* Another request, which may hold the slot when the observed one arrives.
Blocker == CHOOSE p \in Requests : p # Observed

\* The observed handler as in HandlerSpec, with one other request around
\* it, so that it may have to wait for its slot.
QueuedNext ==
    \/ HandlerNext
    \/ Arrive(Blocker, "unknown")
    \/ \E p \in {Observed, Blocker} : Admit(p)
    \/ \E st \in SpecStatuses : Respond(Blocker, st)

QueuedSpec == Init /\ [][QueuedNext]_vars

\* -------------------------- the request, its headers and its endpoint

\* headers.get(name, default), on header names in lower case.
HeaderGet(h, name, default) ==
    IF \E pair \in h : pair[1] = name
    THEN (CHOOSE pair \in h : pair[1] = name)[2]
    ELSE default

\* Lines 314 and 648: body_json and body_json.get('stream', False).
IsStreaming(bj) == ReplyTruthy(bj) /\ Truthy(Get(bj.fields, "stream"))

\* Lines 286-309: the keyword arguments of session.request.  The URL ends
\* with path_qs; a JSON body under a JSON content type is passed as json=,
\* any other body as data= together with a headers= argument that holds
\* the content type alone; no other inbound header is passed on.
OutboundRequest(pth, h, bj) ==
    LET content_type == HeaderGet(h, "content-type", "")
        is_json == content_type \in {"application/json",
                                     "application/json; charset=utf-8"}
    IN  IF ReplyTruthy(bj) /\ is_json
        THEN [path |-> pth, body |-> "json", headers |-> {}]
        ELSE IF bj.kind # "none"
        THEN [path |-> pth, body |-> "data",
              headers |-> {<<"content-type", content_type>>}]
        ELSE [path |-> pth, body |-> "none", headers |-> {}]

\* Lines 350-354 and 376-379: the headers argument of the response object,
\* web.StreamResponse for a stream and web.Response otherwise.
ResponseHeaders(h, streaming) ==
    IF streaming
    THEN {<<"content-type", "application/x-ndjson">>}
    ELSE {<<"content-type", HeaderGet(h, "content-type", "application/json")>>}

RecordEndpointLatency_EveryMatch(pth, m, bj) ==
    LET streaming == IF IsStreaming(bj) THEN "true" ELSE "false"
        Has(piece) == \E i \in 1..Len(pth) : pth[i] = piece
    IN  (IF Has("/api/generate") THEN {<<"generate", m, streaming>>} ELSE {})
        \cup (IF Has("/api/chat") THEN {<<"chat", m, streaming>>} ELSE {})
        \cup (IF Has("/api/tags") THEN {<<"tags", "", "">>} ELSE {})
        \cup (IF Has("/api/show") THEN {<<"show", m, "">>} ELSE {})

\* Lines 646-657, _record_endpoint_latency: the histograms that receive an
\* observation, each with its labels (tags has none, show has the model).
\* `'/api/generate' in path` is a search in path_qs, here in its pieces.
RecordEndpointLatency(pth, m, bj) ==
    LET streaming == IF IsStreaming(bj) THEN "true" ELSE "false"
        Has(piece) == \E i \in 1..Len(pth) : pth[i] = piece
    IN  IF Has("/api/generate") THEN {<<"generate", m, streaming>>}
        ELSE IF Has("/api/chat") THEN {<<"chat", m, streaming>>}
        ELSE IF Has("/api/tags") THEN {<<"tags", "", "">>}
        ELSE IF Has("/api/show") THEN {<<"show", m, "">>}
        ELSE {}

\* Lines 286-312: the upstream request is built from the inbound one.
BuildRequest ==
    /\ out_request = <<>>
    /\ out_request' = <<OutboundRequest(path, in_headers, body_json)>>
    /\ UNCHANGED <<proxyVars, events, up_read, cl_written, up_reply, cl_reply,
                   impl, response_json, observer, parse_attempts, stream_log,
                   path, body_json, in_headers, up_headers, cl_headers,
                   endpoint_latency, priority, samplerVars>>

\* Lines 350-354 or 376-380: the response object for the client is made.
ReturnResponse ==
    /\ cl_headers = <<>>
    /\ cl_headers' = <<ResponseHeaders(up_headers, IsStreaming(body_json))>>
    /\ UNCHANGED <<proxyVars, events, up_read, cl_written, up_reply, cl_reply,
                   impl, response_json, observer, parse_attempts, stream_log,
                   path, body_json, in_headers, up_headers, out_request,
                   endpoint_latency, priority, samplerVars>>

\* Line 341, or line 416 where a stream passes {"stream": True}.
RecordLatency ==
    /\ endpoint_latency = <<>>
    /\ endpoint_latency' =
          <<RecordEndpointLatency(
                path, model[Observed],
                IF IsStreaming(body_json)
                THEN JObject("stream" :> Bool(TRUE)) ELSE body_json)>>
    /\ UNCHANGED <<proxyVars, events, up_read, cl_written, up_reply, cl_reply,
                   impl, response_json, observer, parse_attempts, stream_log,
                   path, body_json, in_headers, up_headers, out_request,
                   cl_headers, priority, samplerVars>>

\* One request: its path, its body, its headers and the headers of the
\* upstream response are drawn here.
RequestInit ==
    /\ InitProxy
    /\ InitAtRest
    /\ path \in {<<"/api/generate">>, <<"/api/chat">>, <<"/api/tags">>,
                 <<"/api/show">>, <<"/api/version">>, <<"/v1/models">>,
                 <<"/api/chat", "?next=", "/api/generate">>,
                 <<"/api/show", "?name=", "/api/tags">>}
    /\ body_json \in {[kind |-> "none", fields |-> EmptyObject],
                      JObject(EmptyObject),
                      JObject("stream" :> Bool(TRUE)),
                      JObject("stream" :> Bool(FALSE)),
                      JObject("stream" :> Null),
                      JObject("stream" :> Str(3))}
    /\ in_headers \in
          {{<<"host", "proxy:11435">>, <<"authorization", "Bearer t">>},
           {<<"host", "proxy:11435">>, <<"content-type", "application/json">>,
            <<"content-length", "42">>},
           {<<"host", "proxy:11435">>,
            <<"content-type", "application/json; charset=utf-8">>,
            <<"authorization", "Bearer t">>, <<"connection", "keep-alive">>},
           {<<"host", "proxy:11435">>, <<"content-type", "text/plain">>,
            <<"x-request-id", "7">>, <<"transfer-encoding", "chunked">>}}
    /\ up_headers \in
          {{},
           {<<"content-type", "application/json; charset=utf-8">>},
           {<<"content-type", "text/plain">>, <<"x-upstream-id", "9">>}}
    /\ priority = [p \in Requests |-> "normal"]

\* The handlers of Spec where one of the requests was sent with the header
\* X-Priority: high (scripts/test_priority_queue.py sends it; proxy_request
\* does not read it).
PriorityInit ==
    /\ InitProxy
    /\ InitAtRest
    /\ path = <<"/api/generate">>
    /\ body_json = [kind |-> "none", fields |-> EmptyObject]
    /\ in_headers = {}
    /\ up_headers = {}
    /\ \E h \in Requests :
          priority = [p \in Requests |-> IF p = h THEN "high" ELSE "normal"]

PrioritySpec == PriorityInit /\ [][Next]_vars

RequestNext == BuildRequest \/ ReturnResponse \/ RecordLatency

RequestSpec == RequestInit /\ [][RequestNext]_vars

\* -------------------------------------------- collect_system_metrics

\* What an iteration of the sampler leaves alone.
handlingVars == <<pc, model, client, _max_queue_seen, sem_value, sem_waiters,
                  request_timestamps, max_queue_size, queue_wait_time,
                  queue_rejections, active_requests, error_count,
                  request_count, request_duration, hist_max_queue, events,
                  up_read, cl_written, up_reply, cl_reply, impl,
                  response_json, observer, parse_attempts, stream_log,
                  requestVars>>

SamplerIteration_NoReset(due, raises) ==
    /\ sampler.pc = "ready"
    /\ sampler' = [pc |-> "sleeping", raised |-> raises]
    /\ queue_size_gauge' = IF raises THEN queue_size_gauge ELSE queue_size
    /\ IF due /\ ~raises
       THEN /\ queue_processing_rate' = <<processed_requests_count>>
            /\ rate_total' = rate_total + processed_requests_count
            /\ UNCHANGED processed_requests_count
       ELSE UNCHANGED <<queue_processing_rate, rate_total,
                        processed_requests_count>>
    /\ UNCHANGED <<queue_size, handlingVars>>

SamplerIteration_Uncaught(due, raises) ==
    /\ sampler.pc = "ready"
    /\ sampler' = [pc |-> IF raises THEN "stopped" ELSE "sleeping",
                   raised |-> raises]
    /\ queue_size_gauge' = IF raises THEN queue_size_gauge ELSE queue_size
    /\ IF due /\ ~raises
       THEN /\ queue_processing_rate' = <<processed_requests_count>>
            /\ rate_total' = rate_total + processed_requests_count
            /\ processed_requests_count' = 0
       ELSE UNCHANGED <<queue_processing_rate, rate_total,
                        processed_requests_count>>
    /\ UNCHANGED <<queue_size, handlingVars>>

\* Lines 587-633, one iteration of the loop, which holds no await: the event
\* loop runs it without interleaving.  raises: psutil raised at lines 589-594,
\* before any shared field was touched (the collectors of lines 612-630 catch
\* their own exceptions); the handler of line 632 logs it and the loop goes
\* on to the sleep.  due: ten seconds have passed since the window was last
\* reset (line 602); the rate published is the window's count over the time
\* elapsed, and the model keeps the count.
SamplerIteration(due, raises) ==
    /\ sampler.pc = "ready"
    /\ sampler' = [pc |-> "sleeping", raised |-> raises]
    /\ queue_size_gauge' = IF raises THEN queue_size_gauge ELSE queue_size
    /\ IF due /\ ~raises
       THEN /\ queue_processing_rate' = <<processed_requests_count>>
            /\ rate_total' = rate_total + processed_requests_count
            /\ processed_requests_count' = 0
       ELSE UNCHANGED <<queue_processing_rate, rate_total,
                        processed_requests_count>>
    /\ UNCHANGED <<queue_size, handlingVars>>

\* Line 635: the sleep ends and the loop starts its next iteration.
SamplerWake ==
    /\ sampler.pc = "sleeping"
    /\ sampler' = [sampler EXCEPT !.pc = "ready"]
    /\ UNCHANGED <<queue_size, queue_size_gauge, processed_requests_count,
                   queue_processing_rate, rate_total, handlingVars>>

SamplerStep ==
    \/ \E due \in BOOLEAN, raises \in BOOLEAN : SamplerIteration(due, raises)
    \/ SamplerWake

\* The handlers of Spec beside the sampler task (line 775).
SamplerNext ==
    \/ \E p \in Requests : Arrive(p, "unknown")
    \/ \E p \in Requests : Admit(p)
    \/ \E p \in Requests : CancelWaiting(p)
    \/ \E p \in Requests : UpstreamFail(p, "timeout")
    \/ \E p \in Requests : Respond(p, 200)
    \/ \E p \in Requests : StreamBegin(p, 200)
    \/ \E p \in Requests : StreamEnd(p, FALSE)
    \/ \E p \in Requests : StreamEof(p, TRUE)
    \/ \E p \in Requests : Cancel(p)
    \/ \E due \in BOOLEAN, raises \in BOOLEAN : SamplerIteration(due, raises)
    \/ SamplerWake

\* The event loop resumes the sampler when its sleep ends, and runs its
\* iteration once resumed.
SamplerSpec ==
    /\ Init
    /\ [][SamplerNext]_vars
    /\ WF_vars(SamplerStep)

\* ------------------------------------------ _extract_response_metrics

\* Values tried for the token counts and for the durations (nanoseconds).
CountValues == {Num(0), Num(10), Num(50), Null, Str(1)}

DurationValues == {Num(0), Num(NsPerSecond \div 2), Num(NsPerSecond),
                   Num(0 - (NsPerSecond \div 2)), Null}

\* The object with the fields of `full` that are not Absent.
MakeObject(full) ==
    [k \in {f \in DOMAIN full : full[f] # Absent} |-> full[k]]

ObserverInit ==
    /\ InitProxy
    /\ up_read = <<>>
    /\ cl_written = <<>>
    /\ up_reply = <<>>
    /\ cl_reply = <<>>
    /\ parse_attempts = 0
    /\ observer = InitialObserver
    /\ impl \in {"fixed", "original"}
    /\ events = [p \in Requests |-> <<>>]
    /\ stream_log = <<>>
    /\ out_request = <<>>
    /\ cl_headers = <<>>
    /\ endpoint_latency = <<>>
    /\ sampler = [pc |-> "ready", raised |-> FALSE]
    /\ queue_processing_rate = <<>>
    /\ rate_total = 0
    /\ InitInputs
    /\ \E pcount, ecount \in CountValues \cup {Absent},
          edur, pdur, ldur \in DurationValues \cup {Absent} :
          response_json = MakeObject("prompt_eval_count" :> pcount
                                     @@ "eval_count" :> ecount
                                     @@ "eval_duration" :> edur
                                     @@ "prompt_eval_duration" :> pdur
                                     @@ "load_duration" :> ldur)

\* The non-streaming path hands the parsed body to the observer: the fixed
\* proxy when the object is not empty (line 330), the original one always.
Observe ==
    /\ observer.extract_calls = <<>>
    /\ impl = "fixed" => DOMAIN response_json # {}
    /\ observer' = ExtractResponseMetrics(impl, response_json, observer, 0)
    /\ UNCHANGED <<proxyVars, up_read, cl_written, up_reply, cl_reply,
                   parse_attempts, impl, response_json, events, stream_log,
                   requestVars, samplerVars>>

ObserverNext == Observe

ObserverSpec == ObserverInit /\ [][ObserverNext]_vars

\* ------------------------------------------------------------ fairness

\* A handler that holds a slot runs on: the upstream call carries a total
\* timeout (aiohttp.ClientTimeout(total=300)), so it ends with a response, a
\* failure or the timeout, and the event loop resumes every ready task.
Progress(p) ==
    \/ \E et \in {"timeout", "proxy_error"} : UpstreamFail(p, et)
    \/ \E st \in SpecStatuses : Respond(p, st)
    \/ \E st \in SpecStatuses : StreamBegin(p, st)
    \/ \E failed \in BOOLEAN : StreamEnd(p, failed)
    \/ \E ok \in BOOLEAN : StreamEof(p, ok)

FairSpec ==
    /\ Spec
    /\ \A p \in Requests : WF_vars(Admit(p)) /\ WF_vars(Progress(p))

\* ------------------------------------------------- admission: claims

\* C1: with the semaphore sized N_admit, at most N_admit handlers are ever
\* between a successful acquire and the matching release, and a handler
\* becomes active only in a step that starts with fewer than N_admit active
\* (a request arriving while N_admit are active is not admitted before one
\* of them releases).
C1_ConcurrencyBound ==
    /\ [](Cardinality(Active) <= N_admit)
    /\ [][\A p \in Requests :
            (~InExecution(p) /\ InExecution(p)')
                => Cardinality(Active) < N_admit]_vars

\* N_admit handlers are active and another request has arrived and is held
\* back.
C1_Witness == Cardinality(Active) = N_admit /\ Waiting # {}

\* C2: the active-requests gauge of every model equals the number of
\* handlers of that model between acquire and release: each increment is
\* matched by one decrement on the same label, so once a request has ended
\* (success, 502/504 or cancellation) its contribution is gone.
C2_GaugeSymmetry ==
    \A m \in ModelLabels :
        active_requests[m] = Cardinality({p \in Active : model[p] = m})

\* Three requests of one model have ended, one with the upstream response,
\* one with a gateway error and one by cancellation of its handler, and the
\* gauge of that model is back at its initial value.
C2_Witness ==
    \E m \in ModelLabels, p, q, r \in Requests :
        /\ model[p] = m /\ model[q] = m /\ model[r] = m
        /\ pc[p] = "done" /\ client[p] = <<200>>
        /\ pc[q] = "done" /\ client[q] \in {<<502>>, <<504>>}
        /\ pc[r] = "cancelled"
        /\ active_requests[m] = 0

\* C3: in every state queue_size (and its gauge) equals the number of
\* handlers that recorded their arrival and were not yet granted a slot, so
\* it is 0 once no handler remains.
C3_QueueSizeCountsWaiting ==
    /\ queue_size = Cardinality(Waiting)
    /\ queue_size_gauge = queue_size

\* C4: the max-queue-size gauge and _max_queue_seen (once it exists) equal
\* the largest value queue_size has held since start, and the gauge never
\* decreases.
C4_MaxQueueSeen ==
    /\ [](/\ max_queue_size = hist_max_queue
          /\ _max_queue_seen # NoAttr => _max_queue_seen[1] = hist_max_queue)
    /\ [][max_queue_size' >= max_queue_size]_vars

\* The queue has drained below a maximum of at least two waiting requests,
\* which the gauge still shows.
C4_Witness ==
    /\ hist_max_queue >= 2
    /\ queue_size < hist_max_queue
    /\ max_queue_size = hist_max_queue

\* C5 as stated: no request is rejected for queue depth, and every request
\* waiting for a slot is eventually admitted.
C5_EveryWaiterAdmitted ==
    /\ [](queue_rejections = 0)
    /\ \A p \in Requests : (pc[p] = "waiting") ~> Admitted(p)

\* C5 amended: no request is rejected for queue depth, and every request
\* waiting for a slot is eventually admitted unless its handler is
\* cancelled while it waits.
C5_WaiterAdmittedUnlessCancelled ==
    /\ [](queue_rejections = 0)
    /\ \A p \in Requests :
          (pc[p] = "waiting") ~> (Admitted(p) \/ pc[p] = "cancelled_waiting")

\* Two requests waited behind a full semaphore at the same time (the
\* queue was two deep), none was rejected and every request has been
\* admitted since.
C5_Witness ==
    /\ hist_max_queue >= 2
    /\ \A p \in Requests : Admitted(p)
    /\ queue_rejections = 0

\* --------------------------------------------- streamed responses

\* json.loads raises on the line.
ParseFails(line) == JsonLoads(DecodeStrip(line)).kind = "error"

\* The line parses to an object that carries generated text.
HasText(line) ==
    LET j == JsonLoads(DecodeStrip(line))
    IN  j.kind = "object" /\ Truthy(Get(j.fields, "response"))

\* The line parses to an object with done = true.
IsDone(line) ==
    LET j == JsonLoads(DecodeStrip(line))
    IN  j.kind = "object" /\ Truthy(Get(j.fields, "done"))

\* The lines that have reached the metric parsing.
Parsed == SubSeq(up_read, 1, parse_attempts)

\* The loop of lines 386-402 run over a whole sequence of lines.
RECURSIVE ObserveAll(_, _, _)
ObserveAll(lines, ob, at) ==
    IF lines = <<>> THEN ob
    ELSE ObserveAll(Tail(lines), StreamObserve(ob, Head(lines), at), at + 1)

\* What the metrics hold, without the positions of the chunks.
Metrics(ob) ==
    <<Len(ob.time_to_first_token), ob.prompt_tokens, ob.generated_tokens,
      ob.tokens_per_second, ob.model_load_duration, ob.context_length,
      Len(ob.extract_calls)>>

\* C6: at every point of a streamed response, what has been written to the
\* client is line for line what has been read from upstream: the same lines
\* in the same order with their line endings, nothing added, dropped or
\* altered, whether or not a line fails the metric parsing.
C6_StreamTransparency == cl_written = up_read

\* A response of three lines, one of them not JSON and the last one without
\* a line ending, has been streamed to its end.
C6_Witness ==
    /\ pc[Observed] = "done"
    /\ Len(up_read) = 3
    /\ ParseFails(up_read[2])
    /\ ~up_read[3].eol
    /\ parse_attempts = 3

\* C7: a line that is not valid JSON is written to the client as it was
\* read; the metrics are those that the valid lines alone give, so the
\* failure costs nothing of the chunks before and after it; and while the
\* response is streamed the client keeps the upstream status and no error is
\* counted.
C7_MalformedChunkLocal ==
    /\ \A i \in 1..Len(up_read) :
          ParseFails(up_read[i]) =>
              i <= Len(cl_written) /\ cl_written[i] = up_read[i]
    /\ Metrics(observer)
          = Metrics(ObserveAll(SelectSeq(Parsed, LAMBDA l : ~ParseFails(l)),
                               InitialObserver, 1))
    /\ pc[Observed] = "streaming" =>
          /\ client[Observed] \in {<<st>> : st \in UpstreamStatuses}
          /\ \A k \in DOMAIN error_count : error_count[k] = 0

\* The second of three chunks is not valid JSON; the first gave the time to
\* first token and the third the final metrics.
C7_Witness ==
    /\ Len(up_read) = 3
    /\ up_read[1].body = BodyHi
    /\ up_read[2].body = BodyBad
    /\ up_read[3].body = BodyDone
    /\ cl_written[2] = up_read[2]
    /\ observer.time_to_first_token = <<1>>
    /\ observer.extract_calls = <<3>>
    /\ observer.generated_tokens = 10

\* The positions of the parsed chunks that carry generated text.
TextChunks == {i \in 1..parse_attempts : HasText(up_read[i])}

\* C8: the time to first token of a streamed response has one observation,
\* made at the first chunk that carries generated text, and none before such
\* a chunk has come; later chunks with text add nothing.
C8_FirstTokenOnce ==
    observer.time_to_first_token
        = IF TextChunks = {} THEN <<>>
          ELSE <<CHOOSE i \in TextChunks : \A j \in TextChunks : i <= j>>

\* A chunk with empty text, then two chunks with text: one observation, at
\* the second chunk.
C8_Witness ==
    /\ parse_attempts = 3
    /\ ~HasText(up_read[1])
    /\ HasText(up_read[2])
    /\ HasText(up_read[3])
    /\ observer.time_to_first_token = <<2>>

\* The positions of the parsed chunks with done = true.
DoneChunks == {i \in 1..parse_attempts : IsDone(up_read[i])}

\* C9: the eval metrics are recorded at the chunks with done = true, once for
\* each (once for a response with its one final chunk), and the token
\* counters and tokens-per-second hold what those chunks alone give, nothing
\* from an earlier chunk that reports counts; the chunks {"response":"Hi"},
\* {"response":" there"}, {"done":true,"eval_count":10,
\* "eval_duration":500000000} give one tokens-per-second observation of
\* 20.0 and ten generated tokens.
C9_EvalMetricsAtDone ==
    /\ Len(observer.extract_calls) = Cardinality(DoneChunks)
    /\ \A k \in 1..Len(observer.extract_calls) :
          /\ observer.extract_calls[k] \in DoneChunks
          /\ k > 1 => observer.extract_calls[k - 1] < observer.extract_calls[k]
    /\ LET final == ObserveAll(SelectSeq(Parsed, IsDone), InitialObserver, 1)
       IN  /\ observer.tokens_per_second = final.tokens_per_second
           /\ observer.generated_tokens = final.generated_tokens
           /\ observer.prompt_tokens = final.prompt_tokens
    /\ ( /\ parse_attempts = 3
         /\ up_read[1].body = BodyHi
         /\ up_read[2].body = BodyThere
         /\ up_read[3].body = BodyDone )
       => /\ observer.tokens_per_second = <<[phase |-> "", value |-> <<20, 1>>]>>
          /\ observer.generated_tokens = 10
          /\ observer.extract_calls = <<3>>

\* The three chunks of the example have been streamed.
C9_Witness ==
    /\ pc[Observed] = "done"
    /\ parse_attempts = 3
    /\ up_read[1].body = BodyHi
    /\ up_read[2].body = BodyThere
    /\ up_read[3].body = BodyDone
    /\ observer.tokens_per_second = <<[phase |-> "", value |-> <<20, 1>>]>>

\* ------------------------------------------ the Response Observer

\* _extract_response_metrics has run on response_json.
ObserverCalled == observer.extract_calls # <<>>

\* A tokens-per-second observation of the generation phase was made.
EvalRateObserved ==
    \E i \in 1..Len(observer.tokens_per_second) :
        observer.tokens_per_second[i].phase \in {"", "eval"}

\* The generation duration is a strictly positive number.
DurationPositive ==
    /\ "eval_duration" \in DOMAIN response_json
    /\ IsNum(response_json["eval_duration"])
    /\ response_json["eval_duration"].v > 0

\* The generated-token count is a positive number.
CountPositive ==
    /\ "eval_count" \in DOMAIN response_json
    /\ IsNum(response_json["eval_count"])
    /\ response_json["eval_count"].v > 0

\* The statements before the generation rate do not raise: the prompt-token
\* count, when present, is a number that is not negative, and in
\* ollama_monitoring_proxy.py the prompt-evaluation duration, when it is
\* used, is a number.
RateReached ==
    /\ "prompt_eval_count" \in DOMAIN response_json =>
          /\ IsNum(response_json["prompt_eval_count"])
          /\ response_json["prompt_eval_count"].v >= 0
    /\ ( /\ impl = "original"
         /\ "prompt_eval_duration" \in DOMAIN response_json
         /\ Truthy(Get(response_json, "prompt_eval_count")) )
       => IsNum(response_json["prompt_eval_duration"])

C11_ObserverNeverAborts ==
    /\ up_reply # <<>> =>
          /\ client[Observed] = <<up_reply[1].status>>
          /\ error_count[<<model[Observed], "proxy_error">>] = 0
    /\ pc[Observed] = "streaming" =>
          /\ ~observer.raised
          /\ \A k \in DOMAIN error_count : error_count[k] = 0

\* C12: on the non-streaming path the client receives the status and the
\* body that upstream returned, for every upstream status and every body,
\* also an empty one and one that is not valid JSON.
C12_ReplyPassthrough == up_reply # <<>> => cl_reply = up_reply

\* ------------------------------------------------ gateway errors

\* The upstream call of p fails in this step, before any response.
CallFails(p) ==
    /\ pc[p] = "upstream"
    /\ pc'[p] = "done"
    /\ error_count' # error_count

\* error_count with the counter of <<m, et>> one higher.
OneMoreError(m, et) == [error_count EXCEPT ![<<m, et>>] = @ + 1]

CallFailed ==
    /\ pc[Observed] = "done"
    /\ up_reply = <<>>
    /\ client[Observed] \in {<<502>>, <<504>>}

\* The error type counted for a gateway status.
ErrorTypeOf(st) == IF st = 504 THEN "timeout" ELSE "proxy_error"

\* The metrics no failed call touches: the request counter, the request
\* duration, the token and latency metrics, the rejections, and the two
\* gauges that are back where they were.
UntouchedByFailure ==
    /\ \A k \in DOMAIN request_count : request_count[k] = 0
    /\ \A m \in ModelLabels : request_duration[m] = 0
    /\ observer = InitialObserver
    /\ queue_rejections = 0
    /\ \A m \in ModelLabels : active_requests[m] = 0
    /\ queue_size_gauge = 0

\* One error counter is one higher than at the start.
OneErrorCounted ==
    error_count = [k \in ModelLabels \X ErrorTypes |->
                     IF k = <<model[Observed], ErrorTypeOf(client[Observed][1])>>
                     THEN 1 ELSE 0]

\* C14 as stated: after a request whose upstream call failed, the error
\* counter of {model, error_type} is one higher and every other counter,
\* gauge and histogram is as it was before the request.
C14_OnlyErrorCounterTouched ==
    CallFailed =>
        /\ OneErrorCounted
        /\ UntouchedByFailure
        /\ \A m \in ModelLabels : queue_wait_time[m] = 0
        /\ max_queue_size = 0

\* C14 amended: the error counter is one higher; the request counter, the
\* request duration and the token metrics are untouched and the active and
\* queue-size gauges are back at their values; but the queue-wait histogram
\* of the model has the observation made on admission, and the
\* max-queue-size gauge shows the request's stay in the queue.
C14_FailureFrame ==
    CallFailed =>
        /\ OneErrorCounted
        /\ UntouchedByFailure
        /\ queue_wait_time = [m \in ModelLabels |->
                                 IF m = model[Observed] THEN 1 ELSE 0]
        /\ max_queue_size = 1

\* The connection to upstream failed: 502, proxy_error counted once.
C14_Witness ==
    /\ CallFailed
    /\ client[Observed] = <<502>>
    /\ error_count[<<model[Observed], "proxy_error">>] = 1

\* Gateway statuses, which the proxy itself produces.
GatewayStatuses == {502, 504}

\* C15: a request gets one response; a gateway error (502/504) is produced
\* only for a request of which nothing has been sent to the client, so
\* never after its streamed response has begun.
C15_NoErrorAfterStreamBegan ==
    /\ Len(client[Observed]) <= 1
    /\ (\E i \in 1..Len(client[Observed]) :
            client[Observed][i] \in GatewayStatuses)
          => cl_written = <<>>

\* ---------------------------------------------- order of the updates

\* The place of an update in the order enqueue gauge, queue-wait
\* observation and active-gauge increment, upstream forward, metric
\* extraction, duration and status observations, active-gauge decrement.
Rank(e) ==
    CASE e = "enqueue" -> 1
      [] e \in {"queue_wait", "active_inc"} -> 2
      [] e = "forward" -> 3
      [] e = "extract" -> 4
      [] e \in {"duration", "latency", "status"} -> 5
      [] e = "active_dec" -> 6

\* The updates of ev that C16 orders (the error counter is not among them).
Ranked(ev) == SelectSeq(ev, LAMBDA e : e # "error")

\* The handler has left proxy_request after holding a slot.
Left(p) == pc[p] \in {"done", "cancelled"}

\* C16: the updates of every handler occur in the order enqueue gauge,
\* then queue-wait observation and active-gauge increment, then the
\* upstream forward, then metric extraction, then duration and status
\* observations, then the active-gauge decrement; on every path, the error
\* paths included, the updates that are made keep this order, and a handler
\* that held a slot leaves with the decrement as its last update.
C16_UpdateOrder ==
    \A p \in Requests :
        LET r == Ranked(events[p])
        IN  /\ \A i, j \in 1..Len(r) : i < j => Rank(r[i]) <= Rank(r[j])
            /\ \A e \in {"enqueue", "queue_wait", "active_inc", "forward",
                          "duration", "latency", "status", "active_dec"} :
                  Count(events[p], e) <= 1
            /\ Left(p) => /\ events[p] # <<>>
                          /\ events[p][Len(events[p])] = "active_dec"

\* The observed request waited for its slot and then made every update,
\* in order.
C16_Witness ==
    /\ hist_max_queue >= 1
    /\ Count(events[Blocker], "active_dec") = 1
    /\ pc[Observed] = "done"
    /\ events[Observed] = <<"enqueue", "queue_wait", "active_inc", "forward",
                            "extract", "duration", "latency", "status",
                            "active_dec">>
    /\ \E i \in 1..Len(events[Blocker]) : events[Blocker][i] = "forward"

\* ------------------------------------------- isolation of a failure

\* The step is a timeout, a transport failure or a cancellation of p: its
\* handler is cancelled (waiting or in execution), or an error is counted
\* for it (at the upstream call, in mid-stream or at the end of the stream).
FailsOrCancelled(p) ==
    \/ pc[p] = "waiting" /\ pc'[p] = "cancelled_waiting"
    \/ InExecution(p) /\ pc'[p] = "cancelled"
    \/ InExecution(p) /\ pc'[p] # pc[p] /\ error_count' # error_count

\* Nothing of q's handler changes in the step.
Untouched(q) ==
    /\ pc'[q] = pc[q]
    /\ model'[q] = model[q]
    /\ client'[q] = client[q]
    /\ events'[q] = events[q]

\* The slots that p's handler gives back in the step: the one it holds,
\* when the handler ends.
SlotsFreed(p) == IF InExecution(p) /\ ~InExecution(p)' THEN 1 ELSE 0

UpstreamFailureStep(p) ==
    \/ CallFails(p)
    \/ pc[p] = "streaming" /\ pc'[p] = "eof" /\ error_count' # error_count

\* Exactly one error counter, one of p's model, is one higher.
OneErrorReported(p) ==
    \E et \in ErrorTypes : error_count' = OneMoreError(model[p], et)

\* C18: no request is retried: a request is forwarded upstream at most
\* once and never returns to the upstream call; the step that reports a
\* failed upstream call raises exactly one error counter by one and gives
\* one error outcome (one gateway status when the call itself failed, no
\* further response when the stream had begun); a handler that has
\* returned stays as it is.
C18_NoRetry ==
    /\ [](\A p \in Requests : Count(events[p], "forward") <= 1)
    /\ [][\A p \in Requests :
            /\ (pc'[p] = "upstream" /\ pc[p] # "upstream")
                  => pc[p] \in {"idle", "waiting"}
            /\ UpstreamFailureStep(p)
                  => /\ OneErrorReported(p)
                     /\ IF pc[p] = "upstream"
                        THEN client'[p] \in {<<502>>, <<504>>}
                        ELSE client'[p] = client[p]
            /\ pc[p] = "done"
                  => /\ pc'[p] = "done"
                     /\ client'[p] = client[p]
                     /\ events'[p] = events[p]]_vars

\* One request has ended with 504 after its one upstream call timed out,
\* another after a failure in the middle of its stream; each was counted
\* once.
C18_Witness ==
    \E p, q \in Requests :
        /\ pc[p] = "done" /\ client[p] = <<504>>
        /\ events[p] = <<"enqueue", "queue_wait", "active_inc", "forward",
                         "error", "active_dec">>
        /\ pc[q] = "done" /\ client[q] = <<200>>
        /\ Count(events[q], "error") = 1
        /\ model[p] # model[q]
        /\ error_count[<<model[p], "timeout">>] = 1
        /\ error_count[<<model[q], "streaming_error">>] = 1

\* ------------------------------------------- every request is answered

\* The statuses a client can be answered with first.
AnswerStatuses == UpstreamStatuses \cup GatewayStatuses

RECURSIVE SumOver(_, _)
SumOver(f, S) ==
    IF S = {} THEN 0
    ELSE LET k == CHOOSE x \in S : TRUE
         IN  f[k] + SumOver(f, S \ {k})

\* The sum of a metric over its label sets.
Total(f) == SumOver(f, DOMAIN f)

\* The requests whose handler has made the update e.
Made(e) == {p \in Requests : Count(events[p], e) = 1}

\* The active gauge went up once and down once and the queue wait was
\* observed once for p.
SlotAccountedOnce(p) ==
    /\ Count(events[p], "active_inc") = 1
    /\ Count(events[p], "active_dec") = 1
    /\ Count(events[p], "queue_wait") = 1

\* C20 as stated: when a handler has returned, with the upstream response
\* or with an error, the active gauge went up and down once, the queue wait
\* was observed once and the request counter was incremented once for it.
C20_AccountingOnce ==
    \A p \in Requests :
        pc[p] = "done"
            => SlotAccountedOnce(p) /\ Count(events[p], "status") = 1

\* C20 amended: when a handler that was admitted has returned or was
\* cancelled, the active gauge went up and down once and the queue wait
\* was observed once for it; the request counter was incremented once for
\* a returned handler whose upstream response was passed on, not at all
\* for one that answered with 502 or 504 itself, and at most once for a
\* cancelled one.  The counters hold exactly these updates.
C20_AccountingFinalized ==
    /\ \A p \in Requests :
          /\ Left(p) => SlotAccountedOnce(p) /\ Count(events[p], "status") <= 1
          /\ pc[p] = "done"
                => (Count(events[p], "status") = 1
                      <=> client[p][1] \in UpstreamStatuses)
    /\ Total(request_count) = Cardinality(Made("status"))
    /\ Total(request_duration) = Cardinality(Made("duration"))
    /\ Total(queue_wait_time) = Cardinality(Made("queue_wait"))
    /\ Total(active_requests)
          = Cardinality(Made("active_inc")) - Cardinality(Made("active_dec"))

\* Three handlers have left: one with the upstream response, one with a
\* gateway error and one by cancellation in the middle of its stream.
C20_Witness ==
    \E p, q, r \in Requests :
        /\ pc[p] = "done" /\ client[p] = <<200>>
        /\ Count(events[p], "status") = 1
        /\ pc[q] = "done" /\ client[q] \in {<<502>>, <<504>>}
        /\ Count(events[q], "status") = 0
        /\ pc[r] = "cancelled" /\ client[r] = <<200>>
        /\ Total(request_count) = 1
        /\ Total(queue_wait_time) = 3

\* ------------------------------------------------- context length

\* C25: when the object handed to the observer reports token counts
\* (numbers, not both zero) and the observer does not raise, the
\* context-length histogram receives one observation, the prompt-token
\* count plus the generated-token count.
C25_ContextIsTotal ==
    LET a == GetOrZero(response_json, "prompt_eval_count")
        b == GetOrZero(response_json, "eval_count")
    IN  (ObserverCalled /\ ~observer.raised /\ IsNum(a) /\ IsNum(b)
           /\ a.v + b.v > 0)
            => observer.context_length = <<a.v + b.v>>

\* ------------------------------------------ permits and active gauge

\* C27: in every state between two steps, the free permits of the
\* semaphore and the handlers between acquire and release add up to its
\* size, the permits never exceed the size, the active-requests gauge
\* summed over the models equals the number of those handlers, and no
\* model's gauge is negative.
C27_PermitsAndGauge ==
    /\ sem_value + Cardinality(Active) = N_concurrent
    /\ sem_value \in 0..N_concurrent
    /\ Total(active_requests) = Cardinality(Active)
    /\ \A m \in ModelLabels : active_requests[m] >= 0

\* Two handlers of different models hold the two slots while a third
\* request waits.
C27_Witness ==
    \E p, q, r \in Requests :
        /\ InExecution(p) /\ InExecution(q) /\ model[p] # model[q]
        /\ pc[r] = "waiting"
        /\ sem_value = 0
        /\ active_requests[model[p]] = 1 /\ active_requests[model[q]] = 1

\* ------------------------------------------- endpoint latency

\* C21: _record_endpoint_latency makes at most one observation, into the
\* generate, chat, tags or show histogram; generate and chat carry the
\* model and the request's streaming flag, show the model, tags no label;
\* a path that names one endpoint goes to that endpoint's histogram, and a
\* path that names none of the four gets no observation.
C21_EndpointClassifier ==
    endpoint_latency # <<>> =>
        LET obs == endpoint_latency[1]
            flag == IF IsStreaming(body_json) THEN "true" ELSE "false"
            named == {piece \in {"/api/generate", "/api/chat", "/api/tags",
                                 "/api/show"} :
                         \E i \in 1..Len(path) : path[i] = piece}
        IN  /\ Cardinality(obs) <= 1
            /\ obs \subseteq {<<"generate", model[Observed], flag>>,
                              <<"chat", model[Observed], flag>>,
                              <<"tags", "", "">>,
                              <<"show", model[Observed], "">>}
            /\ named = {} <=> obs = {}
            /\ \A o \in obs : \E piece \in named : piece = "/api/" \o o[1]

\* A streaming request whose path names two endpoints was observed once,
\* in the generate histogram with streaming="true".
C21_Witness ==
    /\ path = <<"/api/chat", "?next=", "/api/generate">>
    /\ IsStreaming(body_json)
    /\ endpoint_latency = <<{<<"generate", "unknown", "true">>}>>

\* ------------------------------------------------------- headers

\* C23: the response object made for the client, for a stream or not,
\* carries the headers of the upstream response, the same names with the
\* same values.
C23_UpstreamHeadersPassed ==
    cl_headers # <<>> => cl_headers[1] = up_headers

\* C24: the upstream request has the path and query of the inbound one and
\* carries its headers except host, content-length, transfer-encoding and
\* connection, and except content-type when the body is passed as JSON.
C24_RequestForwarded ==
    out_request # <<>> =>
        LET dropped == {"host", "content-length", "transfer-encoding",
                        "connection"}
                       \cup (IF out_request[1].body = "json"
                             THEN {"content-type"} ELSE {})
        IN  /\ out_request[1].path = path
            /\ out_request[1].headers
                  = {pair \in in_headers : pair[1] \notin dropped}

\* ------------------------------------------------------- priority

\* C22: among the requests waiting for a slot, one sent with X-Priority:
\* high is admitted before the normal ones that still wait: no normal
\* request leaves the queue for a slot while a high one waits.
C22_HighPriorityFirst ==
    [][\A p \in Requests :
          (pc[p] = "waiting" /\ pc'[p] = "upstream" /\ priority[p] = "normal")
              => ~\E q \in Requests :
                      pc[q] = "waiting" /\ priority[q] = "high"]_vars

\* ------------------------------------------ write before parse

\* C28: in the stream loop every line is handed to response.write right
\* after it was read, before it is parsed for metrics and before the next
\* line is read; nothing that was read is kept back, and a line that
\* cannot be parsed is written like any other, as are the lines after it.
C28_WriteBeforeParse ==
    /\ \A i \in 1..Len(stream_log) :
          /\ stream_log[i] = "parse"
                => i > 1 /\ stream_log[i - 1] = "write"
          /\ stream_log[i] \in {"write", "write_failed"}
                => i > 1 /\ stream_log[i - 1] = "read"
          /\ stream_log[i] = "read"
                => i = 1 \/ stream_log[i - 1] = "parse"
    /\ Count(stream_log, "read") = Len(up_read)
    /\ Count(stream_log, "write") + Count(stream_log, "write_failed")
          = Len(cl_written)
    /\ Count(stream_log, "parse") = parse_attempts
    /\ Len(cl_written) = Len(up_read)
    /\ \A k \in 1..Len(up_read) : cl_written[k] = up_read[k]

\* Three lines went through the loop, the second of them not JSON: each
\* was read, written and then parsed before the next was read.
C28_Witness ==
    /\ stream_log = <<"read", "write", "parse", "read", "write", "parse",
                      "read", "write", "parse">>
    /\ ParseFails(up_read[2])
    /\ ~ParseFails(up_read[3])
    /\ Len(cl_written) = 3

\* ------------------------------------- a failure in mid-stream

\* C29: when the stream loop of a request ends by an exception after the
\* response was started, that step raises the error counter of
\* {model, streaming_error} by one and no other, observes the request
\* duration once, calls the endpoint latency classifier once and raises the
\* request counter of {model, upstream status} by one, and sends nothing
\* more; all this is done when write_eof is reached, and none of it is
\* repeated afterwards.
C29_StreamFailureAccounted ==
    /\ [][(pc[Observed] = "streaming" /\ pc'[Observed] = "eof"
             /\ error_count' # error_count)
            => /\ error_count'
                    = OneMoreError(model[Observed], "streaming_error")
               /\ request_duration'
                    = [request_duration EXCEPT ![model[Observed]] = @ + 1]
               /\ request_count'
                    = [request_count EXCEPT
                          ![<<model[Observed], client[Observed][1]>>] = @ + 1]
               /\ events'[Observed]
                    = events[Observed]
                        \o <<"error", "duration", "latency", "status">>
               /\ client' = client]_vars
    /\ [](pc[Observed] \in {"eof", "done"} /\ Len(client[Observed]) >= 1
            /\ client[Observed][1] \in UpstreamStatuses
          => /\ Count(events[Observed], "duration") = 1
             /\ Count(events[Observed], "latency") = 1
             /\ Count(events[Observed], "status") = 1
             /\ Total(request_duration) = 1
             /\ Total(request_count) = 1
             /\ error_count[<<model[Observed], "streaming_error">>] <= 1)

\* Two lines of a stream with upstream status 500 were forwarded, then the
\* read from upstream failed: the error and the request metrics are
\* recorded and write_eof is still to come.
C29_Witness ==
    /\ pc[Observed] = "eof"
    /\ client[Observed] = <<500>>
    /\ Len(up_read) = 2 /\ cl_written = up_read
    /\ parse_attempts = 2
    /\ error_count[<<model[Observed], "streaming_error">>] = 1
    /\ request_count[<<model[Observed], 500>>] = 1
    /\ request_duration[model[Observed]] = 1
    /\ events[Observed] = <<"enqueue", "queue_wait", "active_inc", "forward",
                            "error", "duration", "latency", "status">>

\* ----------------------------------------------- the sampler: claims

\* C26: an iteration of the sampler that publishes a rate reads the window
\* of processed requests and resets it to 0 in one step, in which no handler
\* moves; and at every moment the counts published so far plus the current
\* window equal the number of requests that have run their release step
\* (the finally block), however their handling ended.
C26_WindowsCountEachOnce ==
    /\ [][(sampler.pc = "ready" /\ sampler'.pc # "ready")
            => /\ \/ UNCHANGED <<queue_processing_rate, rate_total,
                                 processed_requests_count>>
                  \/ /\ queue_processing_rate' = <<processed_requests_count>>
                     /\ rate_total' = rate_total + processed_requests_count
                     /\ processed_requests_count' = 0
               /\ UNCHANGED <<pc, events>>]_vars
    /\ [](rate_total + processed_requests_count
            = Cardinality({p \in Requests : Left(p)}))

\* A rate was published from a window that held a finished request, another
\* request has finished since, and a third is still being handled.
C26_Witness ==
    /\ queue_processing_rate = <<1>>
    /\ rate_total = 1
    /\ processed_requests_count = 1
    /\ \E p \in Requests : InExecution(p)

\* C30: an iteration of the sampler in which an exception is raised ends
\* like any other, in the sleep of line 635: the task never stops, no step
\* of the sampler changes anything a request handler reads or writes other
\* than the window it resets, and iterations of the sampler run again and
\* again.
C30_SamplerSurvives ==
    /\ [](sampler.pc \in {"ready", "sleeping"})
    /\ [][sampler' # sampler => UNCHANGED <<handlingVars, queue_size>>]_vars
    /\ (sampler.raised /\ sampler.pc = "sleeping") ~> (sampler.pc = "ready")
    /\ []<><<\E due \in BOOLEAN, raises \in BOOLEAN :
                SamplerIteration(due, raises)>>_vars

\* An iteration raised, the sleep after it has ended and the sampler is
\* ready for its next iteration, while one request is in execution and
\* another waits.
C30_Witness ==
    /\ sampler = [pc |-> "ready", raised |-> TRUE]
    /\ \E p \in Requests : InExecution(p)
    /\ \E p \in Requests : pc[p] = "waiting"

====
